---- MODULE Spec2Model ----
(***************************************************************************)
(* retireplan: the year ledger of run_plan (retireplan/engine.py) and the  *)
(* pure functions it calls (timeline, spending, Social Security, RMD       *)
(* table, withdrawal sequencer, tax/MAGI evaluator, Roth solver, rounding).*)
(*                                                                         *)
(* Amounts.  A currency amount is an integer number of 1/Scale currency    *)
(* units (cents).  The engine computes in Decimal under a context of PREC  *)
(* significant digits, rounding half-even: below 10^(PREC-2) currency      *)
(* units every sum and difference of cent amounts is exact, so + and - are *)
(* used as they are.  A product or quotient is rounded half-even to the    *)
(* cent (MulDiv): that is the context's own rounding for amounts of PREC-2 *)
(* integer digits, and an abstraction below them, where the context keeps  *)
(* further decimals; an amount then lies within half a cent of the         *)
(* engine's per operation.  Rates are whole percents; None is the Python   *)
(* None.                                                                   *)
(***************************************************************************)
EXTENDS Integers, Sequences, FiniteSets, TLC

Scale == 100

PREC == 10

FScale == 1000000

None == -1

Max(a, b) == IF a >= b THEN a ELSE b

Min(a, b) == IF a <= b THEN a ELSE b

Abs(a) == IF a < 0 THEN 0 - a ELSE a

Sgn(a) == IF a < 0 THEN 0 - 1 ELSE 1

\* Python truthiness of an Optional[int]: None and 0 are false.
Truthy(x) == x # None /\ x # 0

RECURSIVE MulDivQR(_, _, _)
\* <<q, r>> with a*b = q*c + r and 0 <= r < c, for a, b >= 0 and c > 0,
\* computed without forming the product a*b.
MulDivQR(a, b, c) ==
    IF b = 0 THEN <<0, 0>>
    ELSE LET Twice(h, odd) ==
                 <<2 * h[1] + (IF odd THEN a \div c ELSE 0)
                       + ((2 * h[2] + (IF odd THEN a % c ELSE 0)) \div c),
                   (2 * h[2] + (IF odd THEN a % c ELSE 0)) % c>>
         IN  Twice(MulDivQR(a, b \div 2, c), b % 2 = 1)

\* ROUND_HALF_EVEN of q + r/c.
HalfEven(q, r, c) ==
    IF 2 * r > c \/ (2 * r = c /\ q % 2 = 1) THEN q + 1 ELSE q

\* a*b/c rounded half-even to an integer (the context rounding of a Decimal
\* product or quotient onto the grid); b >= 0, c > 0, a of either sign.
MulDiv(a, b, c) ==
    LET Rounded(qr) == Sgn(a) * HalfEven(qr[1], qr[2], c)
    IN  Rounded(MulDivQR(Abs(a), b, c))

RECURSIVE Pow10(_)
Pow10(n) == IF n <= 0 THEN 1 ELSE 10 * Pow10(n - 1)

\* The Decimal context: a result v (in 1/u currency units) is rounded
\* half-even to PREC significant digits.  With 10 integer digits the quantum
\* is one currency unit, with 9 it is a tenth; finer quanta lie on or below
\* the grids used here and leave v as it is.
ContextRound(v, u) ==
    LET a == Abs(v)
        q == IF a \div u >= Pow10(PREC - 1) THEN u
             ELSE IF a \div u >= Pow10(PREC - 2) /\ u % 10 = 0 THEN u \div 10
             ELSE 1
    IN  Sgn(v) * q * HalfEven(a \div q, a % q, q)

\* value.quantize(Decimal("1."), rounding=ROUND_HALF_UP): to a whole
\* currency unit, ties away from zero; v in 1/u units.
RoundHalfUp(v, u) ==
    Sgn(v) * ((Abs(v) \div u) + (IF 2 * (Abs(v) % u) >= u THEN 1 ELSE 0))

round_dollar(v) == RoundHalfUp(v, Scale)

round_year(v) == v

\* Decimal(str(x)) of a whole number of currency units.
Dec(x) == x * Scale

(***************************************************************************)
(* timeline.py                                                             *)
(***************************************************************************)

\* Both of person 2's year inputs are given (birth_person2 and final_age_person2).
HasPerson2(c) == Truthy(c.birth_year_person2) /\ Truthy(c.final_age_person2)

\* A timeline that ends with person 1.
LastYearOfPerson1(c) == c.birth_year_person1 + c.final_age_person1

last_year(c) ==
    LET last_p1 == c.birth_year_person1 + c.final_age_person1
        last_p2 == IF HasPerson2(c)
                   THEN c.birth_year_person2 + c.final_age_person2
                   ELSE c.start_year
    IN  Max(last_p1, last_p2)

YearCtx(c, y) ==
    LET ap1 == y - c.birth_year_person1
        ap2 == IF Truthy(c.birth_year_person2) THEN y - c.birth_year_person2 ELSE 0
        idx == y - c.start_year
    IN  [year          |-> y,
         age_person1   |-> ap1,
         age_person2   |-> ap2,
         phase         |-> IF idx < c.gogo_years THEN "GoGo"
                           ELSE IF idx < c.gogo_years + c.slow_years THEN "Slow"
                           ELSE "NoGo",
         person1_alive |-> ap1 <= c.final_age_person1,
         person2_alive |-> IF HasPerson2(c) THEN ap2 <= c.final_age_person2 ELSE FALSE]

\* range(start_year, last_year + 1), one YearCtx per year.
make_years(c) ==
    [k \in 1..Max(0, last_year(c) - c.start_year + 1) |-> YearCtx(c, c.start_year + k - 1)]

(***************************************************************************)
(* spending.py, social_security.py                                         *)
(***************************************************************************)

RECURSIVE infl_factor(_, _)
\* (1 + rate) ** n in 1/FScale, rate a whole percent.
infl_factor(rate, n) ==
    IF n <= 0 THEN FScale ELSE MulDiv(infl_factor(rate, n - 1), 100 + rate, 100)

infl_factor_decimal(rate, idx) == infl_factor(rate, idx)

\* The phase amount with inflation and no survivor adjustment.
spend_target_household(phase, year_index, infl, target_spend, gogo_percent, slow_percent, nogo_percent, survivor_pct, person1_alive, person2_alive) ==
    MulDiv(MulDiv(target_spend,
                  IF phase = "GoGo" THEN gogo_percent
                  ELSE IF phase = "Slow" THEN slow_percent
                  ELSE nogo_percent, 100),
           infl_factor(infl, year_index), FScale)

spend_target(phase, year_index, infl, target_spend, gogo_percent, slow_percent, nogo_percent, survivor_pct, person1_alive, person2_alive) ==
    LET base == MulDiv(target_spend,
                       IF phase = "GoGo" THEN gogo_percent
                       ELSE IF phase = "Slow" THEN slow_percent
                       ELSE nogo_percent, 100)
        Survivor(amt) ==
            IF person1_alive /\ person2_alive THEN amt
            ELSE IF person1_alive \/ person2_alive THEN MulDiv(amt, survivor_pct, 100)
            ELSE 0
    IN  Survivor(MulDiv(base, infl_factor(infl, year_index), FScale))

ss_for_year(age_now, start_age, annual_at_start, year_index, cola) ==
    IF start_age = None \/ annual_at_start = None THEN 0
    ELSE IF age_now < start_age THEN 0
    ELSE MulDiv(annual_at_start, infl_factor(cola, Max(0, age_now - start_age)), FScale)

(***************************************************************************)
(* policy.py                                                               *)
(***************************************************************************)

\* float("inf")
Infinity == 0

\* _UNIFORM_LIFETIME for the ages 73..115, in tenths.
UNIFORM_LIFETIME ==
    <<265, 255, 246, 237, 229, 220, 211, 202, 194, 185, 177, 168, 160, 152, 144,
      137, 129, 122, 115, 108, 101, 95, 89, 84, 78, 73, 68, 64, 60, 56, 52, 49,
      46, 43, 41, 39, 37, 35, 34, 33, 31, 30, 29>>

rmd_factor(age) ==
    IF age < 73 THEN Infinity
    ELSE UNIFORM_LIFETIME[Min(age, 115) - 72]

\* ira_end / Decimal(str(factor)): a quotient by infinity is zero.
DivFactor(v, f) == IF f = Infinity THEN 0 ELSE MulDiv(v, 10, f)

SS_THRESHOLDS(filing) ==
    IF filing = "Single" THEN <<Dec(25000), Dec(34000)>> ELSE <<Dec(32000), Dec(44000)>>

\* FED_BRACKETS: <<upper limit, rate in percent>>; Infinity is the open last bracket.
FED_BRACKETS(filing) ==
    IF filing = "Single"
    THEN <<<<Dec(11600), 10>>, <<Dec(47150), 12>>, <<Dec(100525), 22>>, <<Dec(191950), 24>>,
           <<Dec(243725), 32>>, <<Dec(609350), 35>>, <<Infinity, 37>>>>
    ELSE <<<<Dec(23200), 10>>, <<Dec(94300), 12>>, <<Dec(201050), 22>>, <<Dec(383900), 24>>,
           <<Dec(487450), 32>>, <<Dec(731200), 35>>, <<Infinity, 37>>>>

(***************************************************************************)
(* taxes.py                                                                *)
(***************************************************************************)

RECURSIVE BracketTax(_, _, _, _)
\* The bracket loop of progressive_tax from bracket k on, prev the last
\* upper limit taxed.
BracketTax(taxable_income, brackets, k, prev) ==
    IF k > Len(brackets) THEN 0
    ELSE LET upper == brackets[k][1]
             rate  == brackets[k][2]
             top   == IF upper = Infinity THEN taxable_income ELSE Min(taxable_income, upper)
             span  == top - prev
             here  == IF span > 0 THEN MulDiv(span, rate, 100) ELSE 0
             prev1 == IF span > 0 THEN upper ELSE prev
         IN  IF upper = Infinity \/ taxable_income <= upper THEN here
             ELSE here + BracketTax(taxable_income, brackets, k + 1, prev1)

progressive_tax(taxable_income, filing) ==
    IF taxable_income <= 0 THEN 0
    ELSE Max(0, BracketTax(taxable_income, FED_BRACKETS(filing), 1, 0))

\* The two bands added up with no ceiling at 85% of the benefit.
ss_taxable_uncapped(ss_total, other_ordinary, filing) ==
    IF ss_total <= 0 THEN 0
    ELSE LET base == SS_THRESHOLDS(filing)[1]
             addl == SS_THRESHOLDS(filing)[2]
             prov2 == 2 * other_ordinary + ss_total
             part12 == Min(prov2 - 2 * base, 2 * (addl - base))
         IN  IF prov2 <= 2 * base THEN 0
             ELSE MulDiv(20 * (IF part12 > 0 THEN Min(ss_total, part12) ELSE 0)
                             + 17 * Max(0, prov2 - 2 * addl), 1, 40)

\* provisional = other_ordinary + 0.5 * ss_total is kept doubled (prov2) so
\* that the halves stay whole; the result is
\* min(0.85 ss, 0.5 min(ss, 2 part1) + 0.85 excess) rounded to the grid.
ss_taxable_amount(ss_total, other_ordinary, filing) ==
    IF ss_total <= 0 THEN 0
    ELSE LET base   == SS_THRESHOLDS(filing)[1]
             addl   == SS_THRESHOLDS(filing)[2]
             prov2  == 2 * other_ordinary + ss_total
             part12 == Min(prov2 - 2 * base, 2 * (addl - base))
             half   == IF part12 > 0 THEN Min(ss_total, part12) ELSE 0
             exc2   == Max(0, prov2 - 2 * addl)
             cap    == MulDiv(ss_total, 85, 100)
         IN  IF prov2 <= 2 * base THEN 0
             ELSE IF exc2 >= 2 * ss_total THEN cap
             ELSE Min(cap, Max(0, MulDiv(20 * half + 17 * exc2, 1, 40)))

\* <<tax, ss_tax, taxable_income, magi>>
compute_tax_magi(ira_ordinary, roth_conversion, ss_total, std_deduction, filing) ==
    LET Result(ordinary, ss_tax, taxable_income) ==
            <<progressive_tax(taxable_income, filing), ss_tax, taxable_income, ordinary + ss_tax>>
        WithSsTax(ordinary, ss_tax) ==
            Result(ordinary, ss_tax, Max(0, ordinary + ss_tax - Max(0, std_deduction)))
        WithOrdinary(ordinary) ==
            WithSsTax(ordinary, ss_taxable_amount(ss_total, ordinary, filing))
    IN  WithOrdinary(Max(0, ira_ordinary + roth_conversion))

(***************************************************************************)
(* accounts.py                                                             *)
(***************************************************************************)

\* Decimal("1e-9"), the stop tolerance of the withdrawal walk, in grid units.
\* On the grid of 1/Scale it lies below one unit, so remaining <= 1e-9 is
\* remaining <= 0; on a grid of 1e-10 it is ten units.
EPSILON == 0

EPSILON_FINE == 10

\* parse_draw_order: the comma-separated names, stripped.
parse_draw_order(draw_order) ==
    CASE draw_order = "IRA, Brokerage, Roth" -> <<"IRA", "Brokerage", "Roth">>
      [] draw_order = "Brokerage, Roth, IRA" -> <<"Brokerage", "Roth", "IRA">>
      [] draw_order = "Brokerage, IRA, Roth" -> <<"Brokerage", "IRA", "Roth">>
      [] draw_order = "Roth, Brokerage, IRA" -> <<"Roth", "Brokerage", "IRA">>
      [] draw_order = "IRA, Roth, Brokerage" -> <<"IRA", "Roth", "Brokerage">>
      [] draw_order = "Roth, IRA, Brokerage" -> <<"Roth", "IRA", "Brokerage">>

\* A walk that empties every bucket it reaches.
TakeWholeBucket(cap, remaining) == cap

\* One leg of the walk: the amount taken from the leg's bucket.
Take(cap, remaining) == Min(cap, remaining)

RECURSIVE WithdrawLoop(_, _, _, _)
\* The for loop of withdraw_with_order from leg k on; w holds b, r, i, the
\* draws and remaining, eps is 1e-9 on the grid of the amounts.
WithdrawLoop(w, order, k, eps) ==
    IF k > Len(order) THEN w
    ELSE LET leg  == order[k]
             cap  == IF leg = "Brokerage" THEN w.b ELSE IF leg = "Roth" THEN w.r ELSE w.i
             take == Take(cap, w.remaining)
             w1   == [b         |-> IF leg = "Brokerage" THEN w.b - take ELSE w.b,
                      r         |-> IF leg = "Roth" THEN w.r - take ELSE w.r,
                      i         |-> IF leg \notin {"Brokerage", "Roth"} THEN w.i - take ELSE w.i,
                      Brokerage |-> IF leg = "Brokerage" THEN w.Brokerage + take ELSE w.Brokerage,
                      Roth      |-> IF leg = "Roth" THEN w.Roth + take ELSE w.Roth,
                      IRA       |-> IF leg = "IRA" THEN w.IRA + take ELSE w.IRA,
                      remaining |-> w.remaining - take]
         IN  IF w1.remaining <= eps THEN w1 ELSE WithdrawLoop(w1, order, k + 1, eps)

\* The body of withdraw_with_order on a grid where 1e-9 is eps:
\* <<draw Brokerage, draw Roth, draw IRA, b, r, i, remaining>>
WithdrawWalk(brokerage_balance, roth_balance, ira_balance, need, order, eps) ==
    LET w == WithdrawLoop([b |-> brokerage_balance, r |-> roth_balance, i |-> ira_balance,
                           Brokerage |-> 0, Roth |-> 0, IRA |-> 0,
                           remaining |-> Max(0, need)], order, 1, eps)
    IN  <<w.Brokerage, w.Roth, w.IRA, w.b, w.r, w.i, w.remaining>>

\* withdraw_with_order as run_plan calls it, on the grid of 1/Scale.
withdraw_with_order(brokerage_balance, roth_balance, ira_balance, need, order) ==
    WithdrawWalk(brokerage_balance, roth_balance, ira_balance, need, order, EPSILON)

(***************************************************************************)
(* engine.py: run_plan                                                     *)
(***************************************************************************)

\* cfg, events: the arguments of run_plan; pc, idx: its position; the three
\* running balances; rows: the rows appended so far; led: the unrounded
\* figures of the last iteration.  args, result: the arguments and the
\* return value of a function called on its own.
VARIABLES cfg, events, pc, idx, brokerage_end, roth_end, ira_end, rows, led, args, result

vars == <<cfg, events, pc, idx, brokerage_end, roth_end, ira_end, rows, led, args, result>>

\* Decimal(str(x)) of a configured amount: the configuration holds amounts
\* on the grid, which str and Decimal carry over digit for digit.
Decimal(x) == x

RECURSIVE SumEvents(_, _, _)
\* ev_by_year.get(year, []): the amounts of the events of that year, summed.
SumEvents(evs, year, k) ==
    IF k > Len(evs) THEN 0
    ELSE (IF evs[k].year = year THEN Decimal(evs[k].amount) ELSE 0) + SumEvents(evs, year, k + 1)

\* The closure tax_and_magi of one year: <<tax, magi>> for a conversion.
tax_and_magi(conv, e) ==
    LET TaxMagi(t) == <<t[1], t[4]>>
    IN  TaxMagi(compute_tax_magi(e.rmd + e.draw_ira + conv, conv, e.ss_income, e.std_ded,
                                 e.filing_status))

\* The solver is inapplicable: no target, person 1 not alive or past the ACA age.
SolverOff(e) ==
    e.target_magi <= 0 \/ ~e.person1_alive \/ e.age_person1 >= e.aca_end_age

\* A step that creeps towards the target two currency units at a time.
SolverStepCreeping(gap, cap, conv) == Min(Dec(2), cap - conv)

\* A step of the whole gap, whatever the IRA has left.
SolverStepUncapped(gap, cap, conv) == gap

\* The step of one solver round: min(gap, cap - conv).
SolverStep(gap, cap, conv) == Min(gap, cap - conv)

\* A solver that converts all the IRA has left, whatever the target.
SolverConvertsAll(conv, k, e, trace) ==
    [conv |-> Max(0, e.i1), evals |-> 1, trace |-> <<conv>>]

RECURSIVE SolverLoop(_, _, _, _)
\* for _ in range(8) from round k on: the conversion reached, the number of
\* tax_and_magi evaluations, and the conversion at the start of each round.
SolverLoop(conv, k, e, trace) ==
    IF k > 8 THEN [conv |-> conv, evals |-> 8, trace |-> trace]
    ELSE LET Round(magi0, tr) ==
                 LET gap  == e.target_magi - magi0
                     cap  == Max(0, e.i1)
                     step == SolverStep(gap, cap, conv)
                     stop == [conv |-> conv, evals |-> k, trace |-> tr]
                 IN  IF SolverOff(e) THEN stop
                     ELSE IF gap <= Dec(1) THEN stop
                     ELSE IF step <= Dec(1) THEN stop
                     ELSE SolverLoop(conv + step, k + 1, e, tr)
         IN  Round(tax_and_magi(conv, e)[2], Append(trace, conv))

\* A year without growth.
GrowNone(balance, rate) == balance

\* The year's gain or loss alone: balance * Decimal(str(rate)).
GrowthOnly(balance, rate) == Sgn(rate) * MulDiv(balance, Abs(rate), 100)

\* Applying a year's growth: balance * (Decimal(1) + Decimal(str(rate))).
Grow(balance, rate) == MulDiv(balance, 100 + rate, 100)

\* A couple's status kept for as long as either person lives.
FilingWhileEitherAlive(yc) == IF yc.person1_alive \/ yc.person2_alive THEN "MFJ" ELSE "Single"

Filing(yc) == IF yc.person1_alive /\ yc.person2_alive THEN "MFJ" ELSE "Single"

\* round_dollar(broke_bal + roth_bal + ira_bal): the sum is formed in the
\* Decimal context, then quantized.
TotalAssets(broke_bal, roth_bal, ira_bal, u) ==
    RoundHalfUp(ContextRound(ContextRound(broke_bal + roth_bal, u) + ira_bal, u), u)

Years == make_years(cfg)

\* An RMD taken at every age the table lists, whatever rmd_start_age is.
RmdAtAnyAge(c, yc, i0) ==
    IF yc.person1_alive /\ i0 > 0 THEN DivFactor(i0, rmd_factor(yc.age_person1)) ELSE 0

\* The RMD of a computed year from the opening IRA balance.
Rmd(c, yc, i0) ==
    IF yc.person1_alive /\ yc.age_person1 >= c.rmd_start_age /\ i0 > 0
    THEN DivFactor(i0, rmd_factor(yc.age_person1))
    ELSE 0

\* The first-year branch (idx == 0): the user's figures stand in for the
\* computed ones; what the iteration computes, before rounding.
FirstYearLedger(c, yc, b0, r0, i0) ==
    LET total_spend == Decimal(c.year1_spend)
        ss_income   == 0
        tax         == 0
        roth_conv   == 0
        draw_ira    == Decimal(c.year1_ira_draw)
        draw_broke  == Decimal(c.year1_brokerage_draw)
        draw_roth   == Decimal(c.year1_roth_draw)
        events_cash == Decimal(c.year1_cash_events)
        i1          == (i0 - roth_conv) - draw_ira
        b1          == b0 - draw_broke
        r1          == (r0 + roth_conv) - draw_roth
    IN  [first |-> TRUE, yc |-> yc, b0 |-> b0, r0 |-> r0, i0 |-> i0,
         total_spend |-> total_spend, ss_person1 |-> 0, ss_person2 |-> 0,
         ss_income |-> ss_income, events_cash |-> events_cash,
         std_ded |-> 0, target_magi |-> 0, filing_status |-> Filing(yc),
         rmd |-> 0, need_for_budget |-> 0,
         draw_broke |-> draw_broke, draw_roth |-> draw_roth, draw_ira |-> draw_ira,
         wb |-> b0, wr |-> r0, wi |-> i0, unmet |-> 0, shortfall |-> 0,
         conv |-> 0, evals |-> 0, trace |-> <<>>, roth_conv |-> roth_conv,
         b1 |-> b1, r1 |-> r1, i1 |-> i1, rmd_surplus |-> 0,
         tax |-> tax, magi |-> 0,
         target_spend |-> Max(0, total_spend - tax - events_cash),
         broke_bal |-> Grow(b1, c.brokerage_growth),
         roth_bal  |-> Grow(r1, c.roth_growth),
         ira_bal   |-> Grow(i1, c.ira_growth)]

\* A computed year (idx > 0), section by section; each section adds its
\* figures to the ledger l of the year.

\* Lines 183-267: inflation, filing status, spending need, the two Social
\* Security schedules, cash events and the RMD from the opening balances.
YearInputs(c, evs, yc, k, b0, r0, i0) ==
    [first         |-> FALSE, yc |-> yc, b0 |-> b0, r0 |-> r0, i0 |-> i0,
     infl          |-> infl_factor_decimal(c.inflation, k),
     filing_status |-> Filing(yc),
     total_spend   |-> spend_target(yc.phase, k, c.inflation, c.target_spend, c.gogo_percent,
                                    c.slow_percent, c.nogo_percent, c.survivor_percent,
                                    yc.person1_alive, yc.person2_alive),
     ss_person1    |-> ss_for_year(yc.age_person1, c.ss_person1_start_age,
                                   c.ss_person1_annual_at_start, k, c.inflation),
     ss_person2    |-> ss_for_year(yc.age_person2, c.ss_person2_start_age,
                                   c.ss_person2_annual_at_start, k, c.inflation),
     events_cash   |-> SumEvents(evs, yc.year, 1),
     rmd           |-> Rmd(c, yc, i0)]

\* Lines 184-251: standard deduction, MAGI target and combined benefit.
YearBudget(c, l) ==
    l @@ [std_ded     |-> MulDiv(Decimal(c.standard_deduction_base), l.infl, FScale),
          target_magi |-> IF l.yc.person1_alive /\ l.yc.age_person1 < c.aca_end_age
                          THEN MulDiv(Decimal(c.magi_target_base), l.infl, FScale)
                          ELSE 0,
          ss_income   |-> IF l.yc.person1_alive /\ l.yc.person2_alive
                          THEN l.ss_person1 + l.ss_person2
                          ELSE IF l.yc.person1_alive /\ ~l.yc.person2_alive
                          THEN Max(l.ss_person1, l.ss_person2)
                          ELSE IF ~l.yc.person1_alive /\ l.yc.person2_alive
                          THEN Max(l.ss_person1, l.ss_person2)
                          ELSE 0]

\* A need that counts the year's cash events as spending to be funded.
YearNeedWithEvents(c, l) ==
    l @@ [need_for_budget |-> Max(0, l.total_spend + l.events_cash - l.ss_income - l.rmd)]

\* Line 270.
YearNeed(c, l) ==
    l @@ [need_for_budget |-> Max(0, l.total_spend - l.ss_income - l.rmd)]

\* Lines 274-276: the withdrawal, the IRA entering it less the RMD.
YearWithdrawal(c, l) ==
    l @@ [w |-> withdraw_with_order(l.b0, l.r0, l.i0 - l.rmd, l.need_for_budget,
                                    parse_draw_order(c.draw_order))]

\* Lines 274-280: the draws, the balances handed to the withdrawal (wb, wr,
\* wi), the unmet need and the shortfall.
YearDraws(c, l) ==
    l @@ [draw_broke |-> l.w[1], draw_roth |-> l.w[2], draw_ira |-> l.w[3],
          wb |-> l.b0, wr |-> l.r0, wi |-> l.i0 - l.rmd, unmet |-> l.w[7],
          shortfall |-> Max(0, l.total_spend - (l.ss_income + l.rmd + l.w[1] + l.w[2] + l.w[3]))]

\* What the closure tax_and_magi and the solver read.
SolverEnv(c, l) ==
    [rmd |-> l.rmd, draw_ira |-> l.draw_ira, ss_income |-> l.ss_income,
     std_ded |-> l.std_ded, filing_status |-> l.filing_status,
     target_magi |-> l.target_magi, person1_alive |-> l.yc.person1_alive,
     age_person1 |-> l.yc.age_person1, aca_end_age |-> c.aca_end_age,
     i1 |-> l.w[6]]

\* Lines 296-313: the solver; evals counts the final evaluation of line 321.
YearSolver(c, l) ==
    l @@ [sol |-> SolverLoop(0, 1, SolverEnv(c, l), <<>>)]

\* Lines 316 and 326-327: the clamp and the RMD surplus.
YearConversion(c, l) ==
    l @@ [conv |-> l.sol.conv, evals |-> l.sol.evals + 1, trace |-> l.sol.trace,
          roth_conv   |-> Min(l.sol.conv, Max(0, l.w[6])),
          rmd_surplus |-> Max(0, l.rmd - Max(0, l.total_spend - l.ss_income))]

\* A settlement that sweeps the RMD surplus into the Roth bucket.
YearSettleSweepToRoth(c, l) ==
    l @@ [i1 |-> l.w[6] - l.roth_conv,
          r1 |-> l.w[5] + l.roth_conv + l.rmd_surplus,
          b1 |-> l.w[4],
          tm |-> tax_and_magi(l.roth_conv, SolverEnv(c, l))]

\* Lines 317-328: the balances before growth (b1, r1, i1) and the final
\* tax and MAGI.
YearSettle(c, l) ==
    l @@ [i1 |-> l.w[6] - l.roth_conv,
          r1 |-> l.w[5] + l.roth_conv,
          b1 |-> l.w[4] + l.rmd_surplus,
          tm |-> tax_and_magi(l.roth_conv, SolverEnv(c, l))]

\* Lines 331-339: growth and the discretionary spend.
YearClose(c, l) ==
    l @@ [tax |-> l.tm[1], magi |-> l.tm[2],
          target_spend |-> Max(0, l.total_spend - l.tm[1] - l.events_cash),
          broke_bal |-> Grow(l.b1, c.brokerage_growth),
          roth_bal  |-> Grow(l.r1, c.roth_growth),
          ira_bal   |-> Grow(l.i1, c.ira_growth)]

ComputedYearLedger(c, evs, yc, k, b0, r0, i0) ==
    YearClose(c, YearSettle(c, YearConversion(c, YearSolver(c, YearDraws(c,
        YearWithdrawal(c, YearNeed(c, YearBudget(c,
            YearInputs(c, evs, yc, k, b0, r0, i0)))))))))

\* row_data: the rounded output row of a year.
RowData(l) ==
    [Year              |-> round_year(l.yc.year),
     Person1_Age       |-> round_year(l.yc.age_person1),
     Person2_Age       |-> round_year(l.yc.age_person2),
     Lifestyle         |-> l.yc.phase,
     Filing            |-> l.filing_status,
     Total_Spend       |-> round_dollar(l.total_spend),
     Taxes_Due         |-> round_dollar(l.tax),
     Cash_Events       |-> round_dollar(l.events_cash),
     Target_Spend      |-> round_dollar(l.target_spend),
     Social_Security   |-> round_dollar(l.ss_income),
     IRA_Draw          |-> round_dollar(l.draw_ira),
     Brokerage_Draw    |-> round_dollar(l.draw_broke),
     Roth_Draw         |-> round_dollar(l.draw_roth),
     Roth_Conversion   |-> round_dollar(l.roth_conv),
     RMD               |-> round_dollar(l.rmd),
     MAGI              |-> round_dollar(l.magi),
     Std_Deduction     |-> round_dollar(l.std_ded),
     IRA_Balance       |-> round_dollar(l.ira_bal),
     Brokerage_Balance |-> round_dollar(l.broke_bal),
     Roth_Balance      |-> round_dollar(l.roth_bal),
     Total_Assets      |-> TotalAssets(l.broke_bal, l.roth_bal, l.ira_bal, Scale),
     Shortfall         |-> round_dollar(l.shortfall)]

RECURSIVE RunFrom(_, _, _, _, _, _)
\* run_plan as a function of the configuration and the event list: the rows
\* from iteration k on, the three balances entering it given.
RunFrom(c, evs, k, b0, r0, i0) ==
    LET Emit(l) == <<RowData(l)>> \o RunFrom(c, evs, k + 1, l.broke_bal, l.roth_bal, l.ira_bal)
    IN  IF k > Len(make_years(c)) THEN <<>>
        ELSE IF k = 1 THEN Emit(FirstYearLedger(c, make_years(c)[1], b0, r0, i0))
        ELSE Emit(ComputedYearLedger(c, evs, make_years(c)[k], k - 1, b0, r0, i0))

run_plan(c, evs) ==
    RunFrom(c, evs, 1, Decimal(c.balances_brokerage), Decimal(c.balances_roth),
            Decimal(c.balances_ira))

NoLedger == [first |-> FALSE]

NoCall == [fn |-> "none"]

\* The first iteration of the year loop.
FirstYear ==
    /\ pc = "loop"
    /\ idx = 0
    /\ idx < Len(Years)
    /\ \E l \in {FirstYearLedger(cfg, Years[1], brokerage_end, roth_end, ira_end)} :
           /\ led' = l
           /\ brokerage_end' = l.broke_bal
           /\ roth_end' = l.roth_bal
           /\ ira_end' = l.ira_bal
           /\ rows' = Append(rows, RowData(l))
    /\ idx' = idx + 1
    /\ UNCHANGED <<cfg, events, pc, args, result>>

\* Every later iteration of the year loop.
ComputedYear ==
    /\ pc = "loop"
    /\ idx > 0
    /\ idx < Len(Years)
    /\ \E l \in {ComputedYearLedger(cfg, events, Years[idx + 1], idx, brokerage_end, roth_end, ira_end)} :
           /\ led' = l
           /\ brokerage_end' = l.broke_bal
           /\ roth_end' = l.roth_bal
           /\ ira_end' = l.ira_bal
           /\ rows' = Append(rows, RowData(l))
    /\ idx' = idx + 1
    /\ UNCHANGED <<cfg, events, pc, args, result>>

\* The loop is exhausted: return rows.
Return ==
    /\ pc = "loop"
    /\ idx >= Len(Years)
    /\ pc' = "done"
    /\ UNCHANGED <<cfg, events, idx, brokerage_end, roth_end, ira_end, rows, led, args, result>>

(***************************************************************************)
(* inputs.py: validate, on the fields run_plan reads                       *)
(***************************************************************************)

rng(val, lo, hi) == lo <= val /\ val <= hi

validate(c) ==
    /\ rng(c.birth_year_person1, 1900, 2100)
    /\ rng(c.start_year, 1900, 2100)
    /\ (c.birth_year_person2 # None => rng(c.birth_year_person2, 1900, 2100))
    /\ rng(c.final_age_person1, 60, 105)
    /\ (c.final_age_person2 # None => rng(c.final_age_person2, 60, 105))
    /\ c.filing_status \in {"MFJ", "Single"}
    /\ rng(c.inflation, 0 - 20, 20)
    /\ rng(c.brokerage_growth, 0 - 20, 20)
    /\ rng(c.roth_growth, 0 - 20, 20)
    /\ rng(c.ira_growth, 0 - 20, 20)
    /\ rng(c.ss_person1_start_age, 62, 70)
    /\ (c.ss_person2_start_age # None => rng(c.ss_person2_start_age, 62, 70))
    /\ rng(c.survivor_percent, 50, 100)
    /\ rng(c.rmd_start_age, 70, 80)
    /\ c.draw_order \in {"IRA, Brokerage, Roth", "Brokerage, Roth, IRA",
                         "Brokerage, IRA, Roth", "Roth, Brokerage, IRA"}
    /\ c.year1_spend >= 0
    /\ c.year1_taxes >= 0
    /\ c.year1_roth_conversion >= 0
    /\ c.year1_ira_draw >= 0
    /\ c.year1_brokerage_draw >= 0
    /\ c.year1_roth_draw >= 0

(***************************************************************************)
(* The configurations explored                                             *)
(***************************************************************************)

\* Years person 1 lives past the start year.
Horizon == 5

StartYear == 2025

\* <<person 1's age in the start year, person 2: "none", "first" (dies
\* before person 1) or "last" (outlives person 1)>>
Households == {63, 71} \X {"none", "first", "last"}

\* <<brokerage, roth, ira>> in grid units
Balances ==
    { <<50000000, 10000000, 40000050>>,
      <<3000025, 1000000, 10000000>>,
      <<0, 0, 200000000>> }

\* <<year1_spend, year1_ira_draw, year1_brokerage_draw, year1_roth_draw,
\*   year1_cash_events, year1_taxes, year1_roth_conversion>>
Year1s ==
    { <<10000000, 0, 0, 0, 0, 0, 0>>,
      <<10000000, 50000000, 5000040, 0, 700000, 800000, 1000000>>,
      <<10000000, 0 - 100, 0, 0, 0, 0, 0>> }

DrawOrders ==
    {"IRA, Brokerage, Roth", "Brokerage, Roth, IRA", "Brokerage, IRA, Roth",
     "Roth, Brokerage, IRA", "IRA, Roth, Brokerage"}

\* <<brokerage_growth, roth_growth, ira_growth>> in percent
Growths == { <<5, 5, 5>>, <<20, 0 - 20, 20>> }

Inflations == {3}

RmdStartAges == {72, 73, 75}

\* <<aca_end_age, magi_target_base>>
MagiTargets == { <<65, 0>>, <<65, 6000000>>, <<80, 6000000>> }

TargetSpends == {4000000, 10000000}

\* Event lists: none, or one-off events: an expense and an inflow in the
\* start year, the same in the next year, an expense above any year's
\* spending need, and a small one.
EventLists ==
    { <<>>,
      <<[year |-> StartYear, amount |-> 1200000],
        [year |-> StartYear, amount |-> 0 - 500000],
        [year |-> StartYear + 1, amount |-> 500000],
        [year |-> StartYear + 1, amount |-> 0 - 200000],
        [year |-> StartYear + 2, amount |-> 20000000],
        [year |-> StartYear + 3, amount |-> 1200050]>> }

MkCfg(h, bal, y1, ord, g, infl, rsa, mt, ts) ==
    [start_year |-> StartYear,
     birth_year_person1 |-> StartYear - h[1],
     final_age_person1 |-> h[1] + Horizon,
     birth_year_person2 |-> IF h[2] = "none" THEN None ELSE StartYear - (h[1] - 2),
     final_age_person2 |-> IF h[2] = "none" THEN None
                           ELSE IF h[2] = "first" THEN (h[1] - 2) + Horizon - 2
                           ELSE (h[1] - 2) + Horizon + 2,
     filing_status |-> IF h[2] = "none" THEN "Single" ELSE "MFJ",
     gogo_years |-> 2, slow_years |-> 2,
     balances_brokerage |-> bal[1], balances_roth |-> bal[2], balances_ira |-> bal[3],
     draw_order |-> ord,
     year1_spend |-> y1[1], year1_ira_draw |-> y1[2], year1_brokerage_draw |-> y1[3],
     year1_roth_draw |-> y1[4], year1_cash_events |-> y1[5],
     year1_taxes |-> y1[6], year1_roth_conversion |-> y1[7],
     brokerage_growth |-> g[1], roth_growth |-> g[2], ira_growth |-> g[3],
     inflation |-> infl,
     standard_deduction_base |-> 3000000,
     magi_target_base |-> mt[2], aca_end_age |-> mt[1],
     target_spend |-> ts, gogo_percent |-> 100, slow_percent |-> 80, nogo_percent |-> 70,
     survivor_percent |-> 70,
     ss_person1_start_age |-> 67, ss_person1_annual_at_start |-> 3000000,
     ss_person2_start_age |-> IF h[2] = "none" THEN None ELSE 65,
     ss_person2_annual_at_start |-> IF h[2] = "none" THEN None ELSE 3600000,
     rmd_start_age |-> rsa]

\* Households outside the grid above: one whose figures of the second year
\* all end on fractions that round the same way, one that starts at
\* rmd_start_age, two whose start year lies after every final year (a
\* single person and a couple), a couple configured to file "Single" and a
\* single person configured to file "MFJ".
ExtraConfigs ==
    { MkCfg(<<74, "none">>, <<1411583, 625077, 41311604>>, <<5000000, 191728, 0, 0, 0, 0, 0>>,
            "IRA, Brokerage, Roth", <<20, 20, 20>>, 3, 73, <<80, 12000000>>, 15000000),
      MkCfg(<<73, "first">>, <<50000000, 10000000, 40000050>>, <<10000000, 0, 0, 0, 0, 0, 0>>,
            "Brokerage, Roth, IRA", <<5, 5, 5>>, 3, 73, <<65, 0>>, 10000000),
      [MkCfg(<<71, "none">>, <<50000000, 10000000, 40000050>>, <<10000000, 0, 0, 0, 0, 0, 0>>,
             "Brokerage, Roth, IRA", <<5, 5, 5>>, 3, 73, <<65, 0>>, 10000000)
          EXCEPT !.final_age_person1 = 65],
      [MkCfg(<<71, "first">>, <<50000000, 10000000, 40000050>>, <<10000000, 0, 0, 0, 0, 0, 0>>,
             "Brokerage, Roth, IRA", <<5, 5, 5>>, 3, 73, <<65, 0>>, 10000000)
          EXCEPT !.final_age_person1 = 65, !.final_age_person2 = 62],
      [MkCfg(<<63, "last">>, <<50000000, 10000000, 40000050>>, <<10000000, 0, 0, 0, 0, 0, 0>>,
             "Brokerage, Roth, IRA", <<5, 5, 5>>, 3, 73, <<65, 6000000>>, 10000000)
          EXCEPT !.filing_status = "Single"],
      [MkCfg(<<63, "none">>, <<50000000, 10000000, 40000050>>, <<10000000, 0, 0, 0, 0, 0, 0>>,
             "Brokerage, Roth, IRA", <<5, 5, 5>>, 3, 73, <<65, 6000000>>, 10000000)
          EXCEPT !.filing_status = "MFJ"] }

Configs ==
    { MkCfg(h, bal, y1, ord, g, infl, rsa, mt, ts) :
        h \in Households, bal \in Balances, y1 \in Year1s, ord \in DrawOrders,
        g \in Growths, infl \in Inflations, rsa \in RmdStartAges,
        mt \in MagiTargets, ts \in TargetSpends }
    \cup ExtraConfigs

\* run_plan is entered with a validated configuration and an event list.
Init ==
    /\ cfg \in {c \in Configs : validate(c)}
    /\ events \in EventLists
    /\ pc = "loop"
    /\ idx = 0
    /\ brokerage_end = Decimal(cfg.balances_brokerage)
    /\ roth_end = Decimal(cfg.balances_roth)
    /\ ira_end = Decimal(cfg.balances_ira)
    /\ rows = <<>>
    /\ led = NoLedger
    /\ args = NoCall
    /\ result = NoCall

Next == FirstYear \/ ComputedYear \/ Return

Spec == Init /\ [][Next]_vars

(***************************************************************************)
(* Functions called on their own                                           *)
(***************************************************************************)

\* Multiples of 10,000 currency units among the amounts of a call.
MaxTenThousands == 3

Orders ==
    { <<"Brokerage", "Roth", "IRA">>, <<"Brokerage", "IRA", "Roth">>,
      <<"Roth", "Brokerage", "IRA">>, <<"Roth", "IRA", "Brokerage">>,
      <<"IRA", "Brokerage", "Roth">>, <<"IRA", "Roth", "Brokerage">> }

\* Balances and needs on the grid of 1/Scale.
CentAmounts == {0, 1, 25, Dec(100000)} \cup {Dec(10000) * k : k \in 1..MaxTenThousands}

CentNeeds == {0, 1, Dec(25000) + 1, Dec(50000), Dec(200000)}

\* Balances and needs on the grid of 1e-10, around 1e-9.
FineAmounts == {0, 5, 20}

FineNeeds == {0, 5, 15, 25, 60}

WithdrawCalls ==
    [fn : {"withdraw_with_order"}, b : CentAmounts, r : CentAmounts, i : CentAmounts,
     need : CentNeeds, order : Orders, eps : {EPSILON}]
    \cup
    [fn : {"withdraw_with_order"}, b : FineAmounts, r : FineAmounts, i : FineAmounts,
     need : FineNeeds, order : Orders, eps : {EPSILON_FINE}]

\* Unrounded ending balances in halves of a currency unit (u = 2), up to ten
\* integer digits in their sum.
TotalsCalls ==
    [fn : {"row_totals"}, u : {2},
     broke_bal : {0, 3, 999999999, 1000000000, 1000000001},
     roth_bal : {0, 3, 999999999, 1000000000, 1000000001},
     ira_bal : {0, 1, 3}]

(***************************************************************************)
(* precision.py: round_value and round_row on typed values.  A value is    *)
(* [t, v, e, s]: t the Python type, the number v/2 * 10^e for a finite     *)
(* number (v in halves, e = 0 or large), s the text of a str or the name   *)
(* of a non-finite number.                                                 *)
(***************************************************************************)

Value(t, v, e, s) == [t |-> t, v |-> v, e |-> e, s |-> s]

NoneValue == Value("None", 0, 0, "")

IntValue(v, e) == Value("int", v, e, "")

Raise(exc) == Value("raise", 0, 0, exc)

RECURSIVE Digits(_)
\* The number of decimal digits of n >= 0.
Digits(n) == IF n < 10 THEN 1 ELSE 1 + Digits(n \div 10)

\* The whole number nearest to a finite value, as an int: ties go away from
\* zero (ROUND_HALF_UP) or to the even neighbour (Python's round).
Whole(value, half_up) ==
    IF value.e > 0 THEN IntValue(value.v, value.e)
    ELSE IF half_up THEN IntValue(2 * RoundHalfUp(value.v, 2), 0)
    ELSE IntValue(2 * Sgn(value.v) * HalfEven(Abs(value.v) \div 2, Abs(value.v) % 2, 2), 0)

\* The digits of the integer coefficient of a whole value.
CoefficientDigits(w) ==
    IF w.e > 0 THEN Digits(Abs(w.v) * 5) + w.e - 1 ELSE Digits(Abs(w.v) \div 2)

\* int(value.quantize(Decimal("1."), rounding=ROUND_HALF_UP)) under a
\* context of prec digits.
quantize(value, prec) ==
    IF value.s = "NaN" THEN Raise("ValueError")
    ELSE IF value.s = "Infinity" THEN Raise("InvalidOperation")
    ELSE IF CoefficientDigits(Whole(value, TRUE)) > prec THEN Raise("InvalidOperation")
    ELSE Whole(value, TRUE)

\* A rounding that moves every number, whole ones too, to the next whole
\* number above it.
NextWholeAbove(value) ==
    IF value.t = "str" THEN Raise("TypeError")
    ELSE IF value.s = "nan" THEN Raise("ValueError")
    ELSE IF value.s = "inf" THEN Raise("OverflowError")
    ELSE IntValue(2 * ((value.v + (value.v % 2)) \div 2) + (IF value.v % 2 = 0 THEN 2 ELSE 0), value.e)

\* Python's round(value) of a float, an int or a str.
builtin_round(value) ==
    IF value.t = "str" THEN Raise("TypeError")
    ELSE IF value.s = "nan" THEN Raise("ValueError")
    ELSE IF value.s = "inf" THEN Raise("OverflowError")
    ELSE IF value.t = "int" THEN value
    ELSE Whole(value, FALSE)

\* round_dollar and round_year of a value of any type (the two have the
\* same body).
round_whole(value, prec) ==
    IF value.t = "None" THEN NoneValue
    ELSE IF value.t = "Decimal" THEN quantize(value, prec)
    ELSE builtin_round(value)

ROUNDING_RULES == {"Total_Spend", "Year"}

round_value(key, value, prec) ==
    IF value.t = "None" THEN NoneValue
    ELSE IF key \in ROUNDING_RULES THEN round_whole(value, prec)
    ELSE value

\* {k: round_value(k, v) for k, v in row.items()}; the first exception of a
\* column ends the call.
round_row(row, prec) ==
    LET Out(r) ==
            IF \E k \in DOMAIN r : r[k].t = "raise"
            THEN [ok |-> FALSE, exc |-> {r[k].s : k \in {j \in DOMAIN r : r[j].t = "raise"}}]
            ELSE [ok |-> TRUE, row |-> r]
    IN  Out([k \in DOMAIN row |-> round_value(k, row[k], prec)])

\* round_row(round_row(row)): an exception of the inner call propagates.
round_row_twice(once, prec) == IF once.ok THEN round_row(once.row, prec) ELSE once

\* Rows of three columns, two of them under a rounding rule: Decimals and
\* floats on and between whole numbers, of either sign, large and non-finite
\* ones, ints, strings and None; under the engine's Decimal context and
\* under Python's default one of 28 digits.
DollarValues ==
    {Value("Decimal", v, 0, "") : v \in {0 - 1, 1, 4, 5}}
        \cup {Value("Decimal", 3, 10, ""), Value("Decimal", 0, 0, "NaN")}
        \cup {Value("float", v, 0, "") : v \in {0 - 1, 1, 5, 7}}
        \cup {Value("float", 0, 0, "nan"), Value("float", 0, 0, "inf")}
        \cup {IntValue(0, 0), IntValue(6, 0), Value("str", 0, 0, "100"), NoneValue}

YearValues ==
    {IntValue(4050, 0), Value("float", 4049, 0, ""),
     Value("Decimal", 4051, 0, ""), Value("str", 0, 0, "2025"), NoneValue}

LifestyleValues == {Value("str", 0, 0, "GoGo"), Value("Decimal", 5, 0, ""), NoneValue}

RoundCalls ==
    [fn : {"round_row"},
     row : [Total_Spend : DollarValues, Year : YearValues, Lifestyle : LifestyleValues],
     prec : {PREC, 28}]

\* Social Security totals from none to 60,000 and pairs of ordinary incomes
\* (other_lo <= other_hi) from -5,000 to 70,000, on and next to the
\* provisional-income thresholds of both filing statuses.
SsTotals == {0, 1000000, 2000050, 4000000, 6000000}

OrdinaryIncomes ==
    {0 - 500000, 0, 1500000, 2000000, 2200000, 2400000, 2400001, 2999975,
     3100000, 3400000, 4100000, 7000000}

SsTaxableCalls ==
    {a \in [fn : {"ss_taxable_amount"}, ss_total : SsTotals, other_lo : OrdinaryIncomes,
            other_hi : OrdinaryIncomes, filing : {"Single", "MFJ"}] :
        a.other_lo <= a.other_hi}

\* Timelines: person 1 aged 60 or 70 in the start year, person 2 absent,
\* given in full, or given a birth year only; final ages on both sides of
\* the ages in the start year.
TimelineCalls ==
    [fn : {"make_years"},
     c : [start_year : {StartYear},
          birth_year_person1 : {StartYear - 70, StartYear - 60},
          final_age_person1 : {60, 65, 72},
          birth_year_person2 : {None, StartYear - 68},
          final_age_person2 : {None, 60, 70},
          gogo_years : {2}, slow_years : {2}]]

NoConfig == [draw_order |-> "none"]

InitCalls ==
    /\ args \in WithdrawCalls \cup TotalsCalls \cup TimelineCalls \cup RoundCalls \cup SsTaxableCalls
    /\ result = NoCall
    /\ pc = "call"
    /\ cfg = NoConfig
    /\ events = <<>>
    /\ idx = 0
    /\ brokerage_end = 0
    /\ roth_end = 0
    /\ ira_end = 0
    /\ rows = <<>>
    /\ led = NoLedger

\* One call of withdraw_with_order.
CallWithdraw ==
    /\ pc = "call"
    /\ args.fn = "withdraw_with_order"
    /\ result' = [fn  |-> "withdraw_with_order",
                  out |-> WithdrawWalk(args.b, args.r, args.i, args.need, args.order, args.eps)]
    /\ pc' = "returned"
    /\ UNCHANGED <<cfg, events, idx, brokerage_end, roth_end, ira_end, rows, led, args>>

\* The balance columns of one row: the three rounded balances and Total_Assets.
CallTotals ==
    /\ pc = "call"
    /\ args.fn = "row_totals"
    /\ result' = [fn                |-> "row_totals",
                  IRA_Balance       |-> RoundHalfUp(args.ira_bal, args.u),
                  Brokerage_Balance |-> RoundHalfUp(args.broke_bal, args.u),
                  Roth_Balance      |-> RoundHalfUp(args.roth_bal, args.u),
                  Total_Assets      |-> TotalAssets(args.broke_bal, args.roth_bal, args.ira_bal, args.u)]
    /\ pc' = "returned"
    /\ UNCHANGED <<cfg, events, idx, brokerage_end, roth_end, ira_end, rows, led, args>>

\* One call of make_years.
CallMakeYears ==
    /\ pc = "call"
    /\ args.fn = "make_years"
    /\ result' = [fn |-> "make_years", out |-> make_years(args.c)]
    /\ pc' = "returned"
    /\ UNCHANGED <<cfg, events, idx, brokerage_end, roth_end, ira_end, rows, led, args>>

\* round_row of a row, and round_row of what it returned.
CallRoundRow ==
    /\ pc = "call"
    /\ args.fn = "round_row"
    /\ \E once \in {round_row(args.row, args.prec)} :
           result' = [fn |-> "round_row", once |-> once,
                      twice |-> round_row_twice(once, args.prec)]
    /\ pc' = "returned"
    /\ UNCHANGED <<cfg, events, idx, brokerage_end, roth_end, ira_end, rows, led, args>>

\* ss_taxable_amount at two ordinary incomes, the Social Security total
\* and the filing status the same.
CallSsTaxable ==
    /\ pc = "call"
    /\ args.fn = "ss_taxable_amount"
    /\ result' = [fn |-> "ss_taxable_amount",
                  lo |-> ss_taxable_amount(args.ss_total, args.other_lo, args.filing),
                  hi |-> ss_taxable_amount(args.ss_total, args.other_hi, args.filing)]
    /\ pc' = "returned"
    /\ UNCHANGED <<cfg, events, idx, brokerage_end, roth_end, ira_end, rows, led, args>>

NextCalls == CallWithdraw \/ CallTotals \/ CallMakeYears \/ CallRoundRow \/ CallSsTaxable

SpecCalls == InitCalls /\ [][NextCalls]_vars

(***************************************************************************)
(* Properties                                                              *)
(***************************************************************************)

\* The row appended last and the one before it.
Last == rows[Len(rows)]

Prev == rows[Len(rows) - 1]

\* C1: in every row, the first included, IRA_Balance, Brokerage_Balance and
\* Roth_Balance are each >= 0.
C1_EndingBalancesNonNegative ==
    Len(rows) > 0 =>
        /\ Last.IRA_Balance >= 0
        /\ Last.Brokerage_Balance >= 0
        /\ Last.Roth_Balance >= 0

ProvidedCash(row) ==
    row.Social_Security + row.RMD + row.Brokerage_Draw + row.Roth_Draw + row.IRA_Draw

\* C2: in every row Shortfall is never negative, it is positive when benefits,
\* RMD and draws fall short of Total_Spend by more than one unit, and zero
\* when they exceed Total_Spend by more than one unit or match it.
C2_ShortfallConsistent ==
    Len(rows) > 0 =>
        /\ Last.Shortfall >= 0
        /\ (ProvidedCash(Last) < Last.Total_Spend - 1 => Last.Shortfall > 0)
        /\ (ProvidedCash(Last) >= Last.Total_Spend + 1 => Last.Shortfall = 0)

Bal(a, leg) == IF leg = "Brokerage" THEN a.b ELSE IF leg = "Roth" THEN a.r ELSE a.i

DrawOf(out, leg) == IF leg = "Brokerage" THEN out[1] ELSE IF leg = "Roth" THEN out[2] ELSE out[3]

LeftOf(out, leg) == IF leg = "Brokerage" THEN out[4] ELSE IF leg = "Roth" THEN out[5] ELSE out[6]

RECURSIVE DrawnBefore(_, _, _)
\* The draws of the buckets ahead of position k in the order.
DrawnBefore(out, order, k) ==
    IF k <= 1 THEN 0 ELSE DrawOf(out, order[k - 1]) + DrawnBefore(out, order, k - 1)

\* What every walk keeps: no overdraw, a later bucket drawn only after the
\* earlier ones are emptied, draws plus remainder equal the need, returned
\* balance equals input balance minus draw.
WalkKeeps(a, out) ==
    /\ \A k \in 1..3 :
          /\ DrawOf(out, a.order[k]) >= 0
          /\ DrawOf(out, a.order[k]) <= Bal(a, a.order[k])
          /\ LeftOf(out, a.order[k]) = Bal(a, a.order[k]) - DrawOf(out, a.order[k])
          /\ (DrawOf(out, a.order[k]) > 0 =>
                 \A j \in 1..(k - 1) : DrawOf(out, a.order[j]) = Bal(a, a.order[j]))
    /\ out[7] >= 0
    /\ out[1] + out[2] + out[3] + out[7] = a.need

C4_DrawsWithinBalances ==
    Len(rows) > 0 =>
        /\ led.draw_broke >= 0 /\ led.draw_broke <= led.wb
        /\ led.draw_roth >= 0 /\ led.draw_roth <= led.wr
        /\ led.draw_ira >= 0 /\ led.draw_ira <= led.wi
        /\ Last.Brokerage_Draw >= 0 /\ Last.Roth_Draw >= 0 /\ Last.IRA_Draw >= 0

\* C5: in every row the Roth conversion is never negative and no greater
\* than the IRA balance left after the year's RMD and IRA draw are taken
\* from the balance entering the year.
C5_ConversionWithinHeadroom ==
    Len(rows) > 0 =>
        /\ led.roth_conv >= 0
        /\ Last.Roth_Conversion >= 0
        /\ led.roth_conv <= led.i0 - led.rmd - led.draw_ira

\* RMD surplus as read off a row.
Surplus(row) == Max(0, row.RMD - Max(0, row.Total_Spend - row.Social_Security))

\* 100 times the distance of each ending balance of the last row from the
\* growth recurrence applied to the rounded rows.
GapBrokerage ==
    Abs(100 * Last.Brokerage_Balance
        - (Prev.Brokerage_Balance - Last.Brokerage_Draw + Surplus(Last)) * (100 + cfg.brokerage_growth))

GapRoth ==
    Abs(100 * Last.Roth_Balance
        - (Prev.Roth_Balance - Last.Roth_Draw + Last.Roth_Conversion) * (100 + cfg.roth_growth))

GapIRA ==
    Abs(100 * Last.IRA_Balance
        - (Prev.IRA_Balance - Last.RMD - Last.IRA_Draw - Last.Roth_Conversion) * (100 + cfg.ira_growth))

TotalIsSum(row) ==
    Abs(row.Total_Assets - (row.IRA_Balance + row.Brokerage_Balance + row.Roth_Balance)) <= 1

C7_TotalAssetsIsSum ==
    /\ (Len(rows) > 0 => TotalIsSum(Last))
    /\ (result.fn = "row_totals" => TotalIsSum(result))

\* C8: in a row where person 1 is alive at exactly rmd_start_age and the
\* opening IRA balance is positive, the first row included, RMD is positive
\* and is the opening balance divided by rmd_factor(age), in whole units.
C8_RmdAtStartAge ==
    (/\ Len(rows) > 0
     /\ led.yc.person1_alive
     /\ led.yc.age_person1 = cfg.rmd_start_age
     /\ led.i0 > 0) =>
        /\ Last.RMD > 0
        /\ Last.RMD = round_dollar(DivFactor(led.i0, rmd_factor(led.yc.age_person1)))

Schedule1(c, yc) ==
    ss_for_year(yc.age_person1, c.ss_person1_start_age, c.ss_person1_annual_at_start,
                yc.year - c.start_year, c.inflation)

Schedule2(c, yc) ==
    ss_for_year(yc.age_person2, c.ss_person2_start_age, c.ss_person2_annual_at_start,
                yc.year - c.start_year, c.inflation)

\* C10: in every row Social_Security is the larger of the two schedules when
\* exactly one person is alive, their sum when both are, and 0 when neither is.
C10_SocialSecurityBySurvivorship ==
    Len(rows) > 0 =>
        Last.Social_Security =
            round_dollar(IF led.yc.person1_alive /\ led.yc.person2_alive
                         THEN Schedule1(cfg, led.yc) + Schedule2(cfg, led.yc)
                         ELSE IF led.yc.person1_alive \/ led.yc.person2_alive
                         THEN Max(Schedule1(cfg, led.yc), Schedule2(cfg, led.yc))
                         ELSE 0)

\* The inflation-adjusted MAGI target of a year:
\* magi_target_base x (1 + inflation)^(Year - start_year).
InflatedTarget(c, yc) ==
    MulDiv(Decimal(c.magi_target_base), infl_factor(c.inflation, yc.year - c.start_year), FScale)

\* The MAGI target applies to a year: person 1 alive, below aca_end_age, and
\* a positive target.
TargetApplies(c, yc) ==
    yc.person1_alive /\ yc.age_person1 < c.aca_end_age /\ InflatedTarget(c, yc) > 0

\* MAGI as the specification defines it: ordinary + taxable Social Security,
\* for a given ordinary income.
MagiOfOrdinary(ordinary, ss_total, filing) ==
    ordinary + ss_taxable_amount(ss_total, ordinary, filing)

\* The MAGI of the last year had nothing been converted.
MagiUnconverted == MagiOfOrdinary(Max(0, led.rmd + led.draw_ira), led.ss_income, led.filing_status)

\* C11: in every year in which the MAGI target applies, the MAGI with zero
\* conversion is below the target and the IRA left after RMD and draws is at
\* least the gap, the row has Roth_Conversion > 0 and its MAGI is within 500
\* currency units of the inflated target.
C11_ConversionFillsMagi ==
    (/\ Len(rows) > 0
     /\ TargetApplies(cfg, led.yc)
     /\ MagiUnconverted < InflatedTarget(cfg, led.yc)
     /\ led.i0 - led.rmd - led.draw_ira >= InflatedTarget(cfg, led.yc) - MagiUnconverted) =>
        /\ Last.Roth_Conversion > 0
        /\ Abs(Last.MAGI - round_dollar(InflatedTarget(cfg, led.yc))) <= 500

\* MAGI recomputed from the columns of a row, the conversion counted once.
MagiOfRow(row) ==
    MagiOfOrdinary(Dec(row.RMD + row.IRA_Draw + row.Roth_Conversion),
                   Dec(row.Social_Security), row.Filing)

\* C12: in every row MAGI equals ordinary + taxable Social Security with
\* ordinary = RMD + IRA_Draw + Roth_Conversion, within 1 currency unit.
C12_MagiCountsConversionOnce ==
    Len(rows) > 0 => Abs(Dec(Last.MAGI) - MagiOfRow(Last)) <= Dec(1)

\* C13: Roth_Conversion is 0 in every row in which person 1 is not alive, or
\* is at or above aca_end_age, or the inflated MAGI target is not positive.
C13_NoConversionWithoutTarget ==
    (Len(rows) > 0 /\ ~TargetApplies(cfg, led.yc)) =>
        /\ led.roth_conv = 0
        /\ Last.Roth_Conversion = 0

\* A computed year at or past aca_end_age with a configured target, person 1
\* alive and money left in the IRA after RMD and draw, and no conversion.
C13_PastAcaAgeWithHeadroom ==
    /\ Len(rows) > 1
    /\ led.yc.person1_alive
    /\ led.yc.age_person1 >= cfg.aca_end_age
    /\ cfg.magi_target_base > 0
    /\ led.i0 - led.rmd - led.draw_ira > Dec(1000)
    /\ Last.Roth_Conversion = 0

\* C14: in every year the solver stops within 8 rounds and the Tax/MAGI
\* evaluator is called at most 8 times, and the row carries the conversion
\* the loop reached, whether or not the target was reached.
C14_SolverWithinBudget ==
    Len(rows) > 0 =>
        /\ Len(led.trace) <= 8
        /\ led.evals <= 8
        /\ led.roth_conv = led.conv
        /\ Last.Roth_Conversion = round_dollar(led.conv)

\* A computed year whose solver ran out of IRA before the target: a
\* conversion was made, MAGI stays more than a unit below the target, and
\* the row is emitted with that conversion.
C14_StoppedShortOfTarget ==
    /\ Len(rows) > 1
    /\ TargetApplies(cfg, led.yc)
    /\ Len(led.trace) >= 2
    /\ led.roth_conv > 0
    /\ led.magi < led.target_magi - Dec(1)
    /\ Last.Roth_Conversion = round_dollar(led.roth_conv)

\* C15: in every row Total_Spend equals Target_Spend + Taxes_Due +
\* Cash_Events within 1 currency unit.
C15_SpendIdentity ==
    Len(rows) > 0 =>
        Abs(Last.Total_Spend - (Last.Target_Spend + Last.Taxes_Due + Last.Cash_Events)) <= 1

\* C16: in every row, the first included, Cash_Events is the sum of the
\* amounts of the events passed to run_plan whose year is the row's Year.
C16_CashEventsOfTheYear ==
    Len(rows) > 0 => Last.Cash_Events = round_dollar(SumEvents(events, Last.Year, 1))

\* The later of the final years (birth year + final age) of the persons of
\* the plan.
LaterFinalYear(c) ==
    IF HasPerson2(c)
    THEN Max(c.birth_year_person1 + c.final_age_person1,
             c.birth_year_person2 + c.final_age_person2)
    ELSE c.birth_year_person1 + c.final_age_person1

\* The rows so far are the years from start_year on, one each, in order.
YearsInOrder == \A k \in 1..Len(rows) : rows[k].Year = cfg.start_year + k - 1

\* C17 as stated: run_plan returns one row per calendar year from start_year
\* through the later final year of the persons, in order and without gap;
\* the last row is that final year.
C17_OneRowPerYearThroughLaterFinal ==
    /\ YearsInOrder
    /\ pc = "done" =>
          /\ Len(rows) = Max(0, LaterFinalYear(cfg) - cfg.start_year + 1)
          /\ (Len(rows) > 0 => Last.Year = LaterFinalYear(cfg))

\* C17 amended: the same, except that a single-person plan ends no earlier
\* than its start year: it has the row of the start year even when that
\* year lies after the person's final year.
C17_OneRowPerYearSingleFromStart ==
    /\ YearsInOrder
    /\ pc = "done" =>
          /\ Len(rows) = Max(0, (IF HasPerson2(cfg) THEN LaterFinalYear(cfg)
                                 ELSE Max(LaterFinalYear(cfg), cfg.start_year))
                                - cfg.start_year + 1)
          /\ (Len(rows) > 0 /\ LaterFinalYear(cfg) >= cfg.start_year =>
                 Last.Year = LaterFinalYear(cfg))

\* A finished run of a couple in which person 2 outlives person 1: the last
\* row is person 2's final year, after person 1's.
C17_RunEndsWithSurvivor ==
    /\ pc = "done"
    /\ HasPerson2(cfg)
    /\ Len(rows) > 1
    /\ Last.Year = cfg.birth_year_person2 + cfg.final_age_person2
    /\ Last.Year > cfg.birth_year_person1 + cfg.final_age_person1

\* C18: for a configuration whose start year lies after the final year of
\* every person given, make_years returns a timeline of exactly one row.
C18_DegenerateTimelineHasOneRow ==
    (/\ result.fn = "make_years"
     /\ args.c.start_year > args.c.birth_year_person1 + args.c.final_age_person1
     /\ (HasPerson2(args.c) =>
            args.c.start_year > args.c.birth_year_person2 + args.c.final_age_person2)) =>
        Len(result.out) = 1

\* C19: the first row reports the user-supplied spend, draws, conversion and
\* taxes, and its ending balances are the opening balances less the draws
\* (the IRA also less, the Roth plus, the conversion) times 1 + growth.
C19_FirstRowIsActuals ==
    Len(rows) = 1 =>
        /\ Last.Total_Spend = round_dollar(Decimal(cfg.year1_spend))
        /\ Last.IRA_Draw = round_dollar(Decimal(cfg.year1_ira_draw))
        /\ Last.Brokerage_Draw = round_dollar(Decimal(cfg.year1_brokerage_draw))
        /\ Last.Roth_Draw = round_dollar(Decimal(cfg.year1_roth_draw))
        /\ Last.Roth_Conversion = round_dollar(Decimal(cfg.year1_roth_conversion))
        /\ Last.Taxes_Due = round_dollar(Decimal(cfg.year1_taxes))
        /\ Last.Brokerage_Balance =
               round_dollar(Grow(Decimal(cfg.balances_brokerage) - Decimal(cfg.year1_brokerage_draw),
                                 cfg.brokerage_growth))
        /\ Last.Roth_Balance =
               round_dollar(Grow(Decimal(cfg.balances_roth) - Decimal(cfg.year1_roth_draw)
                                     + Decimal(cfg.year1_roth_conversion), cfg.roth_growth))
        /\ Last.IRA_Balance =
               round_dollar(Grow(Decimal(cfg.balances_ira) - Decimal(cfg.year1_ira_draw)
                                     - Decimal(cfg.year1_roth_conversion), cfg.ira_growth))

Unroundable(value, prec) ==
    \/ value.t = "str"
    \/ value.s \in {"nan", "inf", "NaN", "Infinity"}
    \/ value.t = "Decimal" /\ value.e >= prec

Person1Living(row) == row.Person1_Age <= cfg.final_age_person1

Person2Living(row) == HasPerson2(cfg) /\ row.Person2_Age <= cfg.final_age_person2

C22_FilingFollowsConfiguration ==
    Len(rows) > 0 =>
        /\ (Last.Filing = "MFJ" =>
               (cfg.filing_status = "MFJ" /\ led.yc.person1_alive /\ led.yc.person2_alive))
        /\ (cfg.filing_status = "Single" =>
               (Last.Filing = "Single" /\ led.filing_status = "Single"))

\* target_spend x survivor share x phase percentage x (1 + inflation)^k for
\* a household with the given alive flags, 0 when neither is alive.
SpendByCases(c, phase, k, alive1, alive2) ==
    IF ~alive1 /\ ~alive2 THEN 0
    ELSE MulDiv(MulDiv(MulDiv(Decimal(c.target_spend),
                              IF alive1 /\ alive2 THEN 100 ELSE c.survivor_percent, 100),
                       IF phase = "GoGo" THEN c.gogo_percent
                       ELSE IF phase = "Slow" THEN c.slow_percent
                       ELSE c.nogo_percent, 100),
                infl_factor(c.inflation, k), FScale)

\* spend_target against SpendByCases for the plan's parameters, in whole
\* currency units.
SpendTargetGap(c, phase, k, alive1, alive2) ==
    Abs(round_dollar(spend_target(phase, k, c.inflation, c.target_spend, c.gogo_percent,
                                  c.slow_percent, c.nogo_percent, c.survivor_percent,
                                  alive1, alive2))
        - round_dollar(SpendByCases(c, phase, k, alive1, alive2)))

\* spend_target on its own: every phase, year index and pair of alive
\* flags, for the target spends and inflation rates of the plans explored.
SpendTargetCases ==
    \A ts \in TargetSpends, infl \in Inflations, phase \in {"GoGo", "Slow", "NoGo"},
       k \in 0..Horizon, alive1 \in BOOLEAN, alive2 \in BOOLEAN :
        LET c == [target_spend |-> ts, inflation |-> infl, gogo_percent |-> 100,
                  slow_percent |-> 80, nogo_percent |-> 70, survivor_percent |-> 70]
        IN  /\ SpendTargetGap(c, phase, k, alive1, alive2) <= 1
            /\ (~alive1 /\ ~alive2 =>
                   spend_target(phase, k, c.inflation, c.target_spend, c.gogo_percent,
                                c.slow_percent, c.nogo_percent, c.survivor_percent,
                                alive1, alive2) = 0)

\* C23: spend_target is target_spend x phase percentage / 100 x
\* (1 + inflation)^year_index, unchanged when both persons are alive, times
\* survivor_percent / 100 when exactly one is, 0 when neither is; and
\* Total_Spend of every row after the first is this value for the row's
\* phase, year index and alive flags (to the currency unit).
C23_SpendTargetByPhaseAndSurvivorship ==
    /\ SpendTargetCases
    /\ Len(rows) > 1 =>
          Abs(Last.Total_Spend
              - round_dollar(SpendByCases(cfg, Last.Lifestyle, Last.Year - cfg.start_year,
                                          Person1Living(Last), Person2Living(Last)))) <= 1

\* A couple's row in the last phase with one survivor: Total_Spend is the
\* survivor's share, below the household's amount.
C23_SurvivorSpendsLess ==
    /\ Len(rows) > 1
    /\ HasPerson2(cfg)
    /\ Last.Lifestyle = "NoGo"
    /\ Person1Living(Last) # Person2Living(Last)
    /\ Last.Total_Spend > 0
    /\ Abs(Last.Total_Spend
           - round_dollar(SpendByCases(cfg, "NoGo", Last.Year - cfg.start_year, TRUE, FALSE))) <= 1
    /\ Last.Total_Spend
           < round_dollar(SpendByCases(cfg, "NoGo", Last.Year - cfg.start_year, TRUE, TRUE))

\* Twice the provisional income of a call: 2 x ordinary + Social Security.
Provisional2(ss_total, other) == 2 * other + ss_total

\* C24: ss_taxable_amount lies between 0 and 85% of the Social Security
\* total; it is 0 when provisional income is at or below the first
\* threshold, at most 50% of Social Security when it is at or below the
\* second, and it never decreases when ordinary income increases (amounts
\* to the grid unit).
C24_SsTaxableBounds ==
    result.fn = "ss_taxable_amount" =>
        /\ 0 <= result.hi
        /\ 100 * result.hi <= 85 * args.ss_total + 50
        /\ (Provisional2(args.ss_total, args.other_hi) <= 2 * SS_THRESHOLDS(args.filing)[1] =>
               result.hi = 0)
        /\ (Provisional2(args.ss_total, args.other_hi) <= 2 * SS_THRESHOLDS(args.filing)[2] =>
               2 * result.hi <= args.ss_total + 1)
        /\ result.lo <= result.hi

\* Two calls on the same benefit: the lower income leaves provisional income
\* between the thresholds (some of the benefit taxed, at most half), the
\* higher one brings the taxable amount to the ceiling of 85%.
C24_FromHalfBandToCeiling ==
    /\ result.fn = "ss_taxable_amount"
    /\ args.ss_total > 0
    /\ Provisional2(args.ss_total, args.other_lo) > 2 * SS_THRESHOLDS(args.filing)[1]
    /\ Provisional2(args.ss_total, args.other_lo) <= 2 * SS_THRESHOLDS(args.filing)[2]
    /\ 0 < result.lo
    /\ 2 * result.lo <= args.ss_total + 1
    /\ result.lo < result.hi
    /\ result.hi = MulDiv(args.ss_total, 85, 100)

\* The RMD not needed for the year's spending after Social Security.
RmdSurplus == Max(0, led.rmd - Max(0, led.total_spend - led.ss_income))

InflatedDeduction(row) ==
    MulDiv(Decimal(cfg.standard_deduction_base),
           infl_factor(cfg.inflation, row.Year - cfg.start_year), FScale)

\* C26: in every row, the first included, Std_Deduction equals
\* standard_deduction_base x (1 + inflation)^(Year - start_year) within 100
\* currency units.
C26_StdDeductionInflated ==
    Len(rows) > 0 => Abs(Dec(Last.Std_Deduction) - InflatedDeduction(Last)) < Dec(100)

\* The IRA balance after the year's RMD and IRA draw, floored at 0: the
\* solver's cap.
Headroom == Max(0, led.wi - led.draw_ira)

\* C27: at the start and end of every solver round the running conversion
\* lies between 0 and max(0, IRA balance after RMD and draws) and never
\* decreases from one round to the next; hence the final clamp leaves the
\* value the loop reached as it is.
C27_SolverLoopInvariant ==
    (Len(rows) > 1 /\ ~led.first) =>
        /\ \A k \in 1..Len(led.trace) : 0 <= led.trace[k] /\ led.trace[k] <= Headroom
        /\ \A k \in 1..(Len(led.trace) - 1) : led.trace[k] <= led.trace[k + 1]
        /\ Len(led.trace) > 0
        /\ led.trace[Len(led.trace)] <= led.conv
        /\ 0 <= led.conv /\ led.conv <= Headroom
        /\ led.roth_conv = led.conv

\* A year in which the solver ran out of IRA: the conversion grew over at
\* least two rounds up to the whole headroom, which the clamp leaves alone.
C27_ConvertedAllHeadroom ==
    /\ Len(rows) > 1
    /\ ~led.first
    /\ Len(led.trace) >= 2
    /\ led.trace[1] = 0
    /\ led.trace[2] > 0
    /\ Headroom > 0
    /\ led.conv = Headroom
    /\ led.roth_conv = Headroom

\* C28: the MAGI target is a ceiling for conversions: in every row with
\* Roth_Conversion > 0 the row's MAGI does not exceed the year's
\* inflation-adjusted MAGI target by more than the solver's tolerance of one
\* currency unit, also when Social Security is being received.
C28_MagiTargetIsCeiling ==
    (Len(rows) > 0 /\ Last.Roth_Conversion > 0) =>
        /\ led.magi <= InflatedTarget(cfg, led.yc) + Dec(1)
        /\ Last.MAGI <= round_dollar(InflatedTarget(cfg, led.yc)) + 1

\* A row with the two columns cash events may touch blanked.
WithoutCash(row) == [row EXCEPT !.Cash_Events = 0, !.Target_Spend = 0]

\* Two lists of rows agree on every field except Cash_Events and
\* Target_Spend.
AgreeButCash(rows1, rows2) ==
    /\ Len(rows1) = Len(rows2)
    /\ \A k \in 1..Len(rows1) : WithoutCash(rows1[k]) = WithoutCash(rows2[k])

\* C29: cash events do not interfere with the ledger: the rows of a run
\* agree with the rows of the run on the same configuration without events
\* (and so with those of any other event list) on every field except
\* Cash_Events and Target_Spend.
C29_EventsTouchOnlyCashColumns ==
    (pc = "done" /\ events # <<>>) => AgreeButCash(rows, run_plan(cfg, <<>>))

\* A finished run with events whose rows differ from those of the run
\* without events, in Cash_Events and Target_Spend of a later year only.
C29_EventsChangeCashColumns ==
    /\ pc = "done"
    /\ events # <<>>
    /\ Len(rows) > 2
    /\ rows[2].Cash_Events # 0
    /\ rows[2].Target_Spend # run_plan(cfg, <<>>)[2].Target_Spend
    /\ rows[2].Brokerage_Draw > 0
    /\ AgreeButCash(rows, run_plan(cfg, <<>>))

\* C30: a computed year preserves non-negativity: if the three balances
\* entering it are >= 0 (the growth rates lie in the validated range
\* [-0.2, 0.2]), the RMD is at most the opening IRA balance, the balances
\* after RMD, draws, conversion and surplus sweep are >= 0, and so are the
\* three balances carried into the next year.
C30_ComputedYearKeepsNonNegative ==
    (Len(rows) > 1 /\ ~led.first /\ led.b0 >= 0 /\ led.r0 >= 0 /\ led.i0 >= 0) =>
        /\ rng(cfg.brokerage_growth, 0 - 20, 20)
        /\ rng(cfg.roth_growth, 0 - 20, 20)
        /\ rng(cfg.ira_growth, 0 - 20, 20)
        /\ 0 <= led.rmd /\ led.rmd <= led.i0
        /\ led.b1 >= 0 /\ led.r1 >= 0 /\ led.i1 >= 0
        /\ led.broke_bal >= 0 /\ led.roth_bal >= 0 /\ led.ira_bal >= 0
        /\ brokerage_end >= 0 /\ roth_end >= 0 /\ ira_end >= 0
        /\ Last.Brokerage_Balance >= 0 /\ Last.Roth_Balance >= 0 /\ Last.IRA_Balance >= 0

\* A computed year entered with money in the IRA and an RMD due, in which
\* RMD, draw and conversion empty the IRA exactly, under a Roth growth rate
\* of -20%: the IRA ends at 0, not below, and the Roth shrinks but stays
\* positive.
C30_IraEmptiedNotOverdrawn ==
    /\ Len(rows) > 1
    /\ ~led.first
    /\ led.b0 >= 0 /\ led.r0 >= 0 /\ led.i0 > 0
    /\ led.rmd > 0
    /\ cfg.roth_growth = 0 - 20
    /\ led.i1 = 0 /\ ira_end = 0
    /\ led.r1 > 0
    /\ roth_end > 0 /\ roth_end < led.r1

====
